---- MODULE Spec2Model ----
(***************************************************************************)
(* Model of xelis_daemon/src/rpc/mod.rs: the subscriber registry and the   *)
(* event broadcaster of RpcServer, the getwork admission endpoint and the  *)
(* JSON-RPC dispatcher.                                                    *)
(***************************************************************************)
EXTENDS Integers, Sequences, FiniteSets, Bags, TLC

(***************************************************************************)
(* Bounds of the model.                                                    *)
(***************************************************************************)
\* Tasks calling notify_clients concurrently.
NumNotifiers == 2
\* A notify_clients call starts only while fewer delivery tasks are pending.
MaxPending == 1

Notifiers == 1..NumNotifiers
\* Addr<WebSocketHandler> values.
Conns == {"c1", "c2"}
\* NotifyEvent values.
Events == {"E1", "E2"}
\* Payloads handed to notify_clients.
Values == {"P1", "P2"}

\* Option<usize>: None is the empty sequence, Some(n) the sequence <<n>>.
None == <<>>
Some(n) == <<n>>
\* Subscription ids a client may give.
Ids == {None, Some(7)}

\* pub const JSON_RPC_VERSION
JSON_RPC_VERSION == "2.0"

(***************************************************************************)
(* HashMap, as the set of its <<key, value>> entries.                      *)
(***************************************************************************)
Keys(m) == {e[1] : e \in m}
ContainsKey(m, k) == \E e \in m : e[1] = k
Get(m, k) == (CHOOSE e \in m : e[1] = k)[2]
\* HashMap::insert replaces the entry of an existing key.
\* Mutant of MapInsert: an entry of the key that is there is kept beside the new one.
MapInsertKeepsOld(m, k, v) == m \cup {<<k, v>>}
MapInsert(m, k, v) == {e \in m : e[1] # k} \cup {<<k, v>>}
MapRemove(m, k) == {e \in m : e[1] # k}
\* No key occurs in two entries.
NoDuplicateKey(m) == \A e1, e2 \in m : e1[1] = e2[1] => e1 = e2

VARIABLES
    clients,     \* RpcServer.clients: entries <<addr, subscriptions>>
    lock,        \* holder of the clients Mutex, or NoHolder
    pc,          \* per notifier: "idle" or "locked" (inside notify_clients)
    notify,      \* per notifier: the arguments of its notify_clients call
    iter,        \* per notifier: entries clients.iter() has still to yield
    dispatched,  \* per notifier: bag of the tasks its call has spawned (history)
    snap,        \* per notifier: the registry when its call took the lock (history)
    tasks,       \* bag of spawned delivery tasks that have not sent yet
    sendLog,     \* outcome of the latest addr.send(response).await
    result,      \* latest Result returned by subscribe/unsubscribe/notify
    hist,        \* per connection: latest completed registry change (history)
    getwork,     \* RpcServer.getwork: "Some" or "None"
    network,     \* the network of the node's blockchain
    miners,      \* the miners handed to GetWorkServer::add_miner
    gwRequest,   \* the latest request to /getwork/{address}/{worker}
    gwResponse,  \* the response the endpoint gave it
    phase,       \* "setup" while methods are registered, then "serving"
    methods,     \* RpcServer.methods: entries <<name, handler>>
    reported,    \* method names register_method has logged as already registered
    rpcBody,     \* the body of the latest request to /json_rpc
    rpcResponse, \* the envelope the endpoint answered it with
    invoked,     \* the handler call the latest request led to, or NoHandler
    responseError, \* the RpcResponseError an endpoint returned last
    errorJson,   \* the body error_response built from it
    handle,      \* RpcServer.handle: None or Some(ServerHandle)
    handleLock,  \* holder of the handle Mutex, or NoHolder
    stopPc,      \* per caller of stop: "idle", "awaiting" or "done"
    stopRequests, \* how many times ServerHandle::stop has been called (history)
    server,      \* the HTTP server: "running", "stopping" or "stopped"
    requests,    \* per request: "none", "inflight", "completed" or "cancelled"
    wsPc,        \* per connection: where its ws_endpoint call is
    closed,      \* per connection: whether it has closed
    removeDone   \* per connection: whether its remove_client has completed

registryVars == <<clients, lock, pc, notify, iter, dispatched, snap, tasks,
                  sendLog, result, hist>>
getworkVars == <<getwork, network, miners, gwRequest, gwResponse>>
rpcVars == <<phase, methods, reported, rpcBody, rpcResponse, invoked>>
errorVars == <<responseError, errorJson>>
lifecycleVars == <<handle, handleLock, stopPc, stopRequests, server, requests>>
wsVars == <<wsPc, closed, removeDone>>
vars == <<registryVars, getworkVars, rpcVars, errorVars, lifecycleVars, wsVars>>

NoHolder == 0
NoCall == [event |-> "none", value |-> "none"]
NoSend == [addr |-> "none", outcome |-> "none"]
\* Outcomes of addr.send(response).await: Ok(Ok(())), Ok(Err(e)), Err(MailboxError).
Outcomes == {"Delivered", "SendError", "MailboxError"}

\* Mutant of Notification: the subscription id is dropped from the envelope.
NotificationNoId(addr, id, value) ==
    [addr |-> addr,
     response |-> [jsonrpc |-> JSON_RPC_VERSION, id |-> None, result |-> value]]

\* json!(EventResult { event, value })
EventResult(event, value) == [event |-> event, value |-> value]
\* Response(json!({"jsonrpc": .., "id": id, "result": value})) bound to its target.
Notification(addr, id, value) ==
    [addr |-> addr,
     response |-> [jsonrpc |-> JSON_RPC_VERSION, id |-> id, result |-> value]]

RegistryInit ==
    /\ clients = {}
    /\ lock = NoHolder
    /\ pc = [p \in Notifiers |-> "idle"]
    /\ notify = [p \in Notifiers |-> NoCall]
    /\ iter = [p \in Notifiers |-> {}]
    /\ dispatched = [p \in Notifiers |-> EmptyBag]
    /\ snap = [p \in Notifiers |-> {}]
    /\ tasks = EmptyBag
    /\ sendLog = NoSend
    /\ result = "none"
    /\ hist = [c \in Conns |-> "none"]

\* Mutant of LockAvailable: the registry is used without waiting for the lock.
LockIgnored == TRUE

\* self.clients.lock().await returns only while nobody holds the Mutex.
LockAvailable == lock = NoHolder

\* Mutant of AddClient: an entry that is there is kept (entry().or_default()).
AddClientKeepsEntry(addr) ==
    /\ lock = NoHolder
    /\ clients' = IF ContainsKey(clients, addr) THEN clients
                  ELSE clients \cup {<<addr, {}>>}
    /\ hist' = [hist EXCEPT ![addr] = "added"]
    /\ UNCHANGED <<lock, pc, notify, iter, dispatched, snap, tasks, sendLog, result>>
    /\ UNCHANGED <<getworkVars, rpcVars, errorVars, lifecycleVars, wsVars>>

\* add_client: the guard is taken, the entry inserted, the guard dropped.
AddClient(addr) ==
    /\ LockAvailable
    /\ clients' = MapInsert(clients, addr, {})
    /\ hist' = [hist EXCEPT ![addr] = "added"]
    /\ UNCHANGED <<lock, pc, notify, iter, dispatched, snap, tasks, sendLog, result>>
    /\ UNCHANGED <<getworkVars, rpcVars, errorVars, lifecycleVars, wsVars>>

\* Mutant of RemoveClient: the entry is looked up and not removed.
RemoveClientLookupOnly(addr) ==
    /\ lock = NoHolder
    /\ hist' = [hist EXCEPT ![addr] = "removed"]
    /\ UNCHANGED <<clients, lock, pc, notify, iter, dispatched, snap, tasks,
                   sendLog, result>>
    /\ UNCHANGED <<getworkVars, rpcVars, errorVars, lifecycleVars, wsVars>>

\* remove_client
RemoveClient(addr) ==
    /\ LockAvailable
    /\ clients' = MapRemove(clients, addr)
    /\ hist' = [hist EXCEPT ![addr] = "removed"]
    /\ UNCHANGED <<lock, pc, notify, iter, dispatched, snap, tasks, sendLog, result>>
    /\ UNCHANGED <<getworkVars, rpcVars, errorVars, lifecycleVars, wsVars>>

\* Mutant of SubscribeClientTo: a missing entry is created (entry().or_default()).
SubscribeOrRegister(addr, subscribe, id) ==
    /\ lock = NoHolder
    /\ clients' = MapInsert(clients, addr,
                    MapInsert(IF ContainsKey(clients, addr)
                              THEN Get(clients, addr) ELSE {}, subscribe, id))
    /\ result' = "Ok"
    /\ hist' = [hist EXCEPT ![addr] = "subscribed"]
    /\ UNCHANGED <<lock, pc, notify, iter, dispatched, snap, tasks, sendLog>>
    /\ UNCHANGED <<getworkVars, rpcVars, errorVars, lifecycleVars, wsVars>>

\* subscribe_client_to
SubscribeClientTo(addr, subscribe, id) ==
    /\ LockAvailable
    /\ IF ContainsKey(clients, addr)
       THEN /\ clients' = MapInsert(clients, addr,
                                    MapInsert(Get(clients, addr), subscribe, id))
            /\ result' = "Ok"
            /\ hist' = [hist EXCEPT ![addr] = "subscribed"]
       ELSE /\ result' = "ClientNotRegistered"
            /\ UNCHANGED <<clients, hist>>
    /\ UNCHANGED <<lock, pc, notify, iter, dispatched, snap, tasks, sendLog>>
    /\ UNCHANGED <<getworkVars, rpcVars, errorVars, lifecycleVars, wsVars>>

\* unsubscribe_client_from
UnsubscribeClientFrom(addr, subscribe) ==
    /\ LockAvailable
    /\ IF ContainsKey(clients, addr)
       THEN /\ clients' = MapInsert(clients, addr,
                                    MapRemove(Get(clients, addr), subscribe))
            /\ result' = "Ok"
       ELSE /\ result' = "ClientNotRegistered"
            /\ UNCHANGED clients
    /\ UNCHANGED <<lock, pc, notify, iter, dispatched, snap, tasks, sendLog, hist>>
    /\ UNCHANGED <<getworkVars, rpcVars, errorVars, lifecycleVars, wsVars>>

\* notify_clients, up to the start of the loop: the lock is taken and
\* clients.iter() is created.
NotifyLock(p, event, value) ==
    /\ pc[p] = "idle"
    /\ BagCardinality(tasks) < MaxPending
    /\ LockAvailable
    /\ lock' = p
    /\ pc' = [pc EXCEPT ![p] = "locked"]
    /\ notify' = [notify EXCEPT ![p] = [event |-> event, value |-> value]]
    /\ iter' = [iter EXCEPT ![p] = clients]
    /\ dispatched' = [dispatched EXCEPT ![p] = EmptyBag]
    /\ snap' = [snap EXCEPT ![p] = clients]
    /\ UNCHANGED <<clients, tasks, sendLog, result, hist>>
    /\ UNCHANGED <<getworkVars, rpcVars, errorVars, lifecycleVars, wsVars>>

\* Mutant of NotifySpawn: each send is awaited in the loop, so the next turn
\* waits for the delivery dispatched before it.
NotifySpawnAwaited(p) ==
    /\ pc[p] = "locked"
    /\ tasks = EmptyBag
    /\ \E entry \in iter[p] :
        LET addr == entry[1]
            subs == entry[2]
            task == Notification(addr, Get(subs, notify[p].event),
                                 EventResult(notify[p].event, notify[p].value))
        IN  /\ iter' = [iter EXCEPT ![p] = iter[p] \ {entry}]
            /\ IF ContainsKey(subs, notify[p].event)
               THEN /\ tasks' = tasks (+) SetToBag({task})
                    /\ dispatched' = [dispatched EXCEPT
                                        ![p] = dispatched[p] (+) SetToBag({task})]
               ELSE UNCHANGED <<tasks, dispatched>>
    /\ UNCHANGED <<clients, lock, pc, notify, snap, sendLog, result, hist>>
    /\ UNCHANGED <<getworkVars, rpcVars, errorVars, lifecycleVars, wsVars>>

\* One turn of the loop of notify_clients: the next entry, and the
\* tokio::spawn of its delivery task when it is subscribed to the event.
NotifySpawn(p) ==
    /\ pc[p] = "locked"
    /\ \E entry \in iter[p] :
        LET addr == entry[1]
            subs == entry[2]
            task == Notification(addr, Get(subs, notify[p].event),
                                 EventResult(notify[p].event, notify[p].value))
        IN  /\ iter' = [iter EXCEPT ![p] = iter[p] \ {entry}]
            /\ IF ContainsKey(subs, notify[p].event)
               THEN /\ tasks' = tasks (+) SetToBag({task})
                    /\ dispatched' = [dispatched EXCEPT
                                        ![p] = dispatched[p] (+) SetToBag({task})]
               ELSE UNCHANGED <<tasks, dispatched>>
    /\ UNCHANGED <<clients, lock, pc, notify, snap, sendLog, result, hist>>
    /\ UNCHANGED <<getworkVars, rpcVars, errorVars, lifecycleVars, wsVars>>

\* The end of notify_clients: Ok(()) is returned and the guard dropped.
NotifyReturn(p) ==
    /\ pc[p] = "locked"
    /\ iter[p] = {}
    /\ lock' = NoHolder
    /\ pc' = [pc EXCEPT ![p] = "idle"]
    /\ notify' = [notify EXCEPT ![p] = NoCall]
    /\ dispatched' = [dispatched EXCEPT ![p] = EmptyBag]
    /\ snap' = [snap EXCEPT ![p] = {}]
    /\ result' = "Ok"
    /\ UNCHANGED <<clients, iter, tasks, sendLog, hist>>
    /\ UNCHANGED <<getworkVars, rpcVars, errorVars, lifecycleVars, wsVars>>

\* A spawned task: addr.send(response).await and the logging of its outcome.
Deliver(task, outcome) ==
    /\ BagIn(task, tasks)
    /\ tasks' = tasks (-) SetToBag({task})
    /\ sendLog' = [addr |-> task.addr, outcome |-> outcome]
    /\ UNCHANGED <<clients, lock, pc, notify, iter, dispatched, snap, result, hist>>
    /\ UNCHANGED <<getworkVars, rpcVars, errorVars, lifecycleVars, wsVars>>


(***************************************************************************)
(* The getwork endpoint: GET /getwork/{address}/{worker}.                  *)
(***************************************************************************)
\* if worker.len() > 32
MaxWorkerLen == 32
\* Worker names of the model are up to WorkerOver characters longer.
WorkerOver == 1
\* Miners the model lets GetWorkServer hold.
MaxMiners == 2

\* A worker name of n characters.
WorkerName(n) == [i \in 1..n |-> "w"]
Workers == {WorkerName(n) : n \in {0} \cup ((MaxWorkerLen - 1)..(MaxWorkerLen + WorkerOver))}
PublicKeys == {"k1", "k2"}
Networks == {"mainnet", "testnet"}
\* Address strings: "invalid" and the like parse to nothing; the others are
\* the text of an address with its network, its type and its key.
AddressStrings ==
    {[text |-> "invalid", mainnet |-> FALSE, normal |-> FALSE, key |-> "k1"]}
    \cup [text : {"address"}, mainnet : BOOLEAN, normal : BOOLEAN, key : PublicKeys]
\* Address::from_string
AddressFromString(addr) ==
    IF addr.text = "address"
    THEN [ok |-> TRUE,
          address |-> [mainnet |-> addr.mainnet, normal |-> addr.normal, key |-> addr.key]]
    ELSE [ok |-> FALSE, address |-> [mainnet |-> FALSE, normal |-> FALSE, key |-> "none"]]
\* Address::is_normal, Address::is_mainnet, Address::to_public_key
IsNormal(address) == address.normal
IsMainnet(address) == address.mainnet
ToPublicKey(address) == address.key
\* Network::is_mainnet of server.get_blockchain().get_network()
NetworkIsMainnet(n) == n = "mainnet"

\* Requests: the two path segments, and whether the request is a WebSocket
\* handshake that start_with_addr accepts.
GetworkRequests == [address : AddressStrings, worker : Workers, handshake : BOOLEAN]
NoRequest ==
    [address |-> [text |-> "none", mainnet |-> FALSE, normal |-> FALSE, key |-> "none"],
     worker |-> <<>>, handshake |-> FALSE]

\* The fixed reason strings of the rejections.
MiningDisabled == "GetWork server is not enabled"
WorkerNameTooLong == "Worker name must be less or equal to 32 chars"
InvalidAddress == "Invalid miner address for getwork server"
AddressNotNormal == "Address should be in normal format"
NetworkMismatch == "Address is not in same network state"
\* HttpResponse::BadRequest().reason(r).finish(), HttpResponse::NotFound()...
BadRequest(reason) == [status |-> 400, reason |-> reason, upgraded |-> FALSE]
NotFound(reason) == [status |-> 404, reason |-> reason, upgraded |-> FALSE]
\* The response of start_with_addr: 101 and a running GetWorkWebSocketHandler.
SwitchingProtocols == [status |-> 101, reason |-> "Switching Protocols", upgraded |-> TRUE]
\* start_with_addr()? fails: the handshake error is the response.
HandshakeError == [status |-> 400, reason |-> "HandshakeError", upgraded |-> FALSE]
NoResponse == [status |-> 0, reason |-> "none", upgraded |-> FALSE]

\* Mutant of GetworkRejection: the worker name is compared with >=.
GetworkRejectionOffByOne(req) ==
    IF getwork = "None" THEN NotFound(MiningDisabled)
    ELSE IF Len(req.worker) >= MaxWorkerLen THEN BadRequest(WorkerNameTooLong)
    ELSE LET parsed == AddressFromString(req.address) IN
         IF ~parsed.ok THEN BadRequest(InvalidAddress)
         ELSE IF ~IsNormal(parsed.address) THEN BadRequest(AddressNotNormal)
         ELSE IF IsMainnet(parsed.address) # NetworkIsMainnet(network)
              THEN BadRequest(NetworkMismatch)
              ELSE NoResponse

\* The validations of getwork_endpoint, in the order of the code: the
\* response of the first that fails, or NoResponse when all pass.
GetworkRejection(req) ==
    IF getwork = "None" THEN NotFound(MiningDisabled)
    ELSE IF Len(req.worker) > MaxWorkerLen THEN BadRequest(WorkerNameTooLong)
    ELSE LET parsed == AddressFromString(req.address) IN
         IF ~parsed.ok THEN BadRequest(InvalidAddress)
         ELSE IF ~IsNormal(parsed.address) THEN BadRequest(AddressNotNormal)
         ELSE IF IsMainnet(parsed.address) # NetworkIsMainnet(network)
              THEN BadRequest(NetworkMismatch)
              ELSE NoResponse

\* Mutant of GetworkEndpoint: the network is checked after add_miner.
GetworkEndpointLateCheck(req) ==
    LET parsed == AddressFromString(req.address)
        early == IF getwork = "None" THEN NotFound(MiningDisabled)
                 ELSE IF Len(req.worker) > MaxWorkerLen THEN BadRequest(WorkerNameTooLong)
                 ELSE IF ~parsed.ok THEN BadRequest(InvalidAddress)
                 ELSE IF ~IsNormal(parsed.address) THEN BadRequest(AddressNotNormal)
                 ELSE NoResponse
    IN  /\ gwRequest' = req
        /\ IF early # NoResponse
           THEN gwResponse' = early /\ UNCHANGED miners
           ELSE IF ~req.handshake
           THEN gwResponse' = HandshakeError /\ UNCHANGED miners
           ELSE /\ Cardinality(miners) < MaxMiners
                /\ miners' = miners \cup {[addr |-> Cardinality(miners) + 1,
                                          key |-> ToPublicKey(parsed.address),
                                          worker |-> req.worker]}
                /\ gwResponse' =
                     IF IsMainnet(parsed.address) # NetworkIsMainnet(network)
                     THEN BadRequest(NetworkMismatch) ELSE SwitchingProtocols
        /\ UNCHANGED <<getwork, network, registryVars, rpcVars, errorVars,
                     lifecycleVars, wsVars>>

\* getwork_endpoint
GetworkEndpoint(req) ==
    LET rejection == GetworkRejection(req) IN
    /\ gwRequest' = req
    /\ IF rejection # NoResponse
       THEN gwResponse' = rejection /\ UNCHANGED miners
       ELSE IF ~req.handshake
       THEN gwResponse' = HandshakeError /\ UNCHANGED miners
       ELSE /\ Cardinality(miners) < MaxMiners
            /\ miners' = miners \cup
                 {[addr |-> Cardinality(miners) + 1,
                   key |-> ToPublicKey(AddressFromString(req.address).address),
                   worker |-> req.worker]}
            /\ gwResponse' = SwitchingProtocols
    /\ UNCHANGED <<getwork, network, registryVars, rpcVars, errorVars,
                     lifecycleVars, wsVars>>

\* RpcServer::new with disable_getwork_server = (g = "None") on network n.
GetworkInit(g, n) ==
    /\ getwork = g
    /\ network = n
    /\ miners = {}
    /\ gwRequest = NoRequest
    /\ gwResponse = NoResponse

(***************************************************************************)
(* The JSON-RPC dispatcher: POST /json_rpc.                                *)
(***************************************************************************)
\* Request ids of the model are 0..MaxRequestId.
MaxRequestId == 1

\* JSON values of a request body's fields; Absent is a missing field.
Absent == <<"absent">>
JsonNull == <<"null">>
JsonNum(n) == <<"num", n>>
JsonStr(str) == <<"str", str>>
MethodNames == {"m1", "m2"}
Handlers == {"h1", "h2"}
NoHandler == [handler |-> "none", params |-> JsonNull]
\* Bodies: bytes that are no JSON object, and JSON objects with these fields.
NotJson == [syntax |-> FALSE, jsonrpc |-> Absent, id |-> Absent,
            method |-> Absent, params |-> Absent]
Bodies ==
    {NotJson} \cup
    [syntax : {TRUE},
     jsonrpc : {Absent, JsonStr("2.0"), JsonStr("1.0"), JsonNum(2)},
     id : {Absent, JsonNull, JsonStr("7")} \cup {JsonNum(n) : n \in 0..MaxRequestId},
     method : {Absent, JsonNum(1)} \cup {JsonStr(m) : m \in MethodNames},
     params : {Absent, JsonNum(1)}]
NoBody == [syntax |-> FALSE, jsonrpc |-> Absent, id |-> Absent,
           method |-> Absent, params |-> JsonNull]

\* The errors a method handler may return, and the other kinds of RpcError.
HandlerErrorKinds == {"InvalidParams", "UnexpectedParams", "BlockchainError",
                      "DeserializerError", "AnyError", "ExpectedNormalAddress",
                      "NoP2p", "ClientNotRegistered", "WebSocketSendError"}
RpcErrorKinds == {"ParseBodyError", "InvalidRequest", "InvalidVersion",
                  "MethodNotFound"} \cup HandlerErrorKinds
RpcError(kind, arg) == [kind |-> kind, arg |-> arg]
\* What the awaited handler returns: Ok(value) or Err(error).
\* The errors the handlers of the model return.
ReturnedErrorKinds == {"InvalidParams", "BlockchainError"}
HandlerOutcomes ==
    {[ok |-> TRUE, value |-> JsonStr("value"), error |-> RpcError("none", "")]}
    \cup {[ok |-> FALSE, value |-> JsonNull, error |-> RpcError(k, "detail")] :
            k \in ReturnedErrorKinds}

\* Mutant of GetCode: an unknown method falls to the generic code.
GetCodeGeneric(error) ==
    CASE error.kind = "ParseBodyError" -> -32700
      [] error.kind \in {"InvalidRequest", "InvalidVersion"} -> -32600
      [] error.kind \in {"InvalidParams", "UnexpectedParams"} -> -32602
      [] OTHER -> -32603

\* Mutant of GetCode: unexpected parameters fall to the generic code.
GetCodeUnexpectedGeneric(error) ==
    CASE error.kind = "ParseBodyError" -> -32700
      [] error.kind \in {"InvalidRequest", "InvalidVersion"} -> -32600
      [] error.kind = "MethodNotFound" -> -32601
      [] error.kind = "InvalidParams" -> -32602
      [] OTHER -> -32603

\* RpcError::get_code
GetCode(error) ==
    CASE error.kind = "ParseBodyError" -> -32700
      [] error.kind \in {"InvalidRequest", "InvalidVersion"} -> -32600
      [] error.kind = "MethodNotFound" -> -32601
      [] error.kind \in {"InvalidParams", "UnexpectedParams"} -> -32602
      [] OTHER -> -32603

\* RpcError's Display (the #[error(..)] attributes), as the pieces of the text.
Display(error) ==
    CASE error.kind = "ParseBodyError" -> <<"Invalid body in request">>
      [] error.kind = "InvalidRequest" -> <<"Invalid request">>
      [] error.kind = "InvalidParams" -> <<"Invalid params: ", error.arg>>
      [] error.kind = "UnexpectedParams" -> <<"Unexpected parameters for this method">>
      [] error.kind = "InvalidVersion" -> <<"Expected json_rpc set to '2.0'">>
      [] error.kind = "MethodNotFound" ->
            <<"Method '", error.arg, "' in request was not found">>
      [] error.kind = "ExpectedNormalAddress" ->
            <<"Error, expected a normal wallet address">>
      [] error.kind = "NoP2p" -> <<"Error, no P2p enabled">>
      [] error.kind = "ClientNotRegistered" -> <<"WebSocket client is not registered">>
      [] error.kind = "WebSocketSendError" ->
            <<"Could not send message to address: ", error.arg>>
      [] OTHER -> <<error.arg>>

\* RpcResponseError::new
RpcResponseError(id, error) == [id |-> id, error |-> error]
\* json!(id) of an Option<usize>: a number, or null
JsonOfId(id) == IF id = None THEN JsonNull ELSE JsonNum(id[1])
\* RpcResponseError::get_id
GetId(e) == JsonOfId(e.id)
\* RpcResponseError::to_json, the body of error_response
ToJson(e) ==
    [jsonrpc |-> JSON_RPC_VERSION,
     id |-> GetId(e),
     error |-> [code |-> GetCode(e.error), message |-> Display(e.error)]]

\* serde's reading of the fields of RpcRequest: a String, an Option<usize>,
\* an Option<Value>.
IsString(v) == v[1] = "str"
IsOptionUsize(v) == v \in {Absent, JsonNull} \/ (v[1] = "num" /\ v[2] >= 0)
OptionUsize(v) == IF v[1] = "num" THEN Some(v[2]) ELSE None
OptionValue(v) == IF v \in {Absent, JsonNull} THEN None ELSE Some(v)
\* serde_json::from_slice::<RpcRequest>(body) succeeds
Deserializes(body) ==
    /\ body.syntax
    /\ IsString(body.jsonrpc)
    /\ IsOptionUsize(body.id)
    /\ IsString(body.method)

\* Mutant of ParseRequest: a version mismatch is reported without the id.
ParseRequestDropsId(body) ==
    IF ~Deserializes(body)
    THEN [ok |-> FALSE, error |-> RpcResponseError(None, RpcError("ParseBodyError", ""))]
    ELSE LET request == [jsonrpc |-> body.jsonrpc[2],
                         id |-> OptionUsize(body.id),
                         method |-> body.method[2],
                         params |-> OptionValue(body.params)]
         IN  IF request.jsonrpc # JSON_RPC_VERSION
             THEN [ok |-> FALSE, request |-> request,
                   error |-> RpcResponseError(None, RpcError("InvalidVersion", ""))]
             ELSE [ok |-> TRUE, request |-> request]

\* RpcServer::parse_request
ParseRequest(body) ==
    IF ~Deserializes(body)
    THEN [ok |-> FALSE, error |-> RpcResponseError(None, RpcError("ParseBodyError", ""))]
    ELSE LET request == [jsonrpc |-> body.jsonrpc[2],
                         id |-> OptionUsize(body.id),
                         method |-> body.method[2],
                         params |-> OptionValue(body.params)]
         IN  IF request.jsonrpc # JSON_RPC_VERSION
             THEN [ok |-> FALSE, request |-> request,
                   error |-> RpcResponseError(request.id, RpcError("InvalidVersion", ""))]
             ELSE [ok |-> TRUE, request |-> request]

\* Mutant of ExecuteMethod: a handler's error is answered without the id.
ExecuteMethodDropsId(request, outcome) ==
    IF ~ContainsKey(methods, request.method)
    THEN [ok |-> FALSE,
          error |-> RpcResponseError(request.id,
                                     RpcError("MethodNotFound", request.method)),
          invoked |-> NoHandler]
    ELSE LET call == [handler |-> Get(methods, request.method),
                      params |-> IF request.params = None THEN JsonNull
                                 ELSE request.params[1]]
         IN  IF ~outcome.ok
             THEN [ok |-> FALSE,
                   error |-> RpcResponseError(None, outcome.error),
                   invoked |-> call]
             ELSE [ok |-> TRUE,
                   value |-> [jsonrpc |-> JSON_RPC_VERSION,
                              id |-> JsonOfId(request.id),
                              result |-> outcome.value],
                   invoked |-> call]

\* RpcServer::execute_method, given what the handler returns when it is called:
\* the envelope or the error, and the handler call made.
ExecuteMethod(request, outcome) ==
    IF ~ContainsKey(methods, request.method)
    THEN [ok |-> FALSE,
          error |-> RpcResponseError(request.id,
                                     RpcError("MethodNotFound", request.method)),
          invoked |-> NoHandler]
    ELSE LET call == [handler |-> Get(methods, request.method),
                      params |-> IF request.params = None THEN JsonNull
                                 ELSE request.params[1]]
         IN  IF ~outcome.ok
             THEN [ok |-> FALSE,
                   error |-> RpcResponseError(request.id, outcome.error),
                   invoked |-> call]
             ELSE [ok |-> TRUE,
                   value |-> [jsonrpc |-> JSON_RPC_VERSION,
                              id |-> JsonOfId(request.id),
                              result |-> outcome.value],
                   invoked |-> call]

\* RpcServer::register_method, called by rpc::register_methods in RpcServer::new
RegisterMethod(name, handler) ==
    /\ phase = "setup"
    /\ methods' = MapInsert(methods, name, handler)
    /\ reported' = IF ContainsKey(methods, name) THEN reported \cup {name}
                   ELSE reported
    /\ UNCHANGED <<phase, rpcBody, rpcResponse, invoked, registryVars, getworkVars,
                   errorVars, lifecycleVars, wsVars>>

\* RpcServer::new after register_methods: the server is shared and started.
Serve ==
    /\ phase = "setup"
    /\ phase' = "serving"
    /\ UNCHANGED <<methods, reported, rpcBody, rpcResponse, invoked,
                   registryVars, getworkVars, errorVars, lifecycleVars, wsVars>>

\* json_rpc: the request is parsed and executed, and the envelope answered
\* (an Err is answered through ResponseError::error_response).
JsonRpc(body, outcome) ==
    /\ phase = "serving"
    /\ rpcBody' = body
    /\ LET parsed == ParseRequest(body) IN
       IF ~parsed.ok
       THEN /\ rpcResponse' = ToJson(parsed.error)
            /\ invoked' = NoHandler
       ELSE LET executed == ExecuteMethod(parsed.request, outcome) IN
            /\ rpcResponse' = IF executed.ok THEN executed.value
                              ELSE ToJson(executed.error)
            /\ invoked' = executed.invoked
    /\ UNCHANGED <<phase, methods, reported, registryVars, getworkVars,
                   errorVars, lifecycleVars, wsVars>>

\* RpcServer::new: methods: HashMap::new()
RpcInit ==
    /\ phase = "setup"
    /\ methods = {}
    /\ reported = {}
    /\ rpcBody = NoBody
    /\ rpcResponse = [jsonrpc |-> "none"]
    /\ invoked = NoHandler

(***************************************************************************)
(* The error responses: RpcResponseError and its error_response.           *)
(***************************************************************************)
\* The variants of RpcError that carry a value, and the texts of the model.
PayloadKinds == {"InvalidParams", "MethodNotFound", "BlockchainError",
                 "DeserializerError", "AnyError", "WebSocketSendError"}
ErrorTexts == {"detail", "m1"}
RpcErrors ==
    {RpcError(k, a) : k \in PayloadKinds, a \in ErrorTexts}
    \cup {RpcError(k, "") : k \in RpcErrorKinds \ PayloadKinds}
\* The ids an RpcResponseError is built with.
ErrorIds == Ids \cup {Some(n) : n \in 0..MaxRequestId}
NoError == RpcResponseError(None, RpcError("none", ""))
NoJson == [jsonrpc |-> "none"]

ErrorInit ==
    /\ responseError = NoError
    /\ errorJson = NoJson

\* An endpoint returns Err(RpcResponseError::new(id, error)).
NewResponseError(id, error) ==
    /\ responseError' = RpcResponseError(id, error)
    /\ errorJson' = NoJson
    /\ UNCHANGED <<registryVars, getworkVars, rpcVars, lifecycleVars, wsVars>>

\* ResponseError::error_response: the body is to_json() of the error.
ErrorResponse ==
    /\ responseError # NoError
    /\ errorJson = NoJson
    /\ errorJson' = ToJson(responseError)
    /\ UNCHANGED <<responseError, registryVars, getworkVars, rpcVars,
                   lifecycleVars, wsVars>>

(***************************************************************************)
(* The lifecycle: the stored ServerHandle and RpcServer::stop.             *)
(***************************************************************************)
\* Concurrent callers of stop, and requests the server may be serving.
NumStoppers == 2
NumRequests == 3
Stoppers == 1..NumStoppers
Requests == 1..NumRequests

\* RpcServer::new has stored the handle and spawned the server.
LifecycleInit ==
    /\ handle = Some("ServerHandle")
    /\ handleLock = NoHolder
    /\ stopPc = [s \in Stoppers |-> "idle"]
    /\ stopRequests = 0
    /\ server = "running"
    /\ requests = [r \in Requests |-> "none"]

\* The server accepts a connection and starts to serve its request.
Accept(r) ==
    /\ server = "running"
    /\ requests[r] = "none"
    /\ requests' = [requests EXCEPT ![r] = "inflight"]
    /\ UNCHANGED <<handle, handleLock, stopPc, stopRequests, server>>
    /\ UNCHANGED <<registryVars, getworkVars, rpcVars, errorVars, wsVars>>

\* A request in flight runs to its end.
Complete(r) ==
    /\ requests[r] = "inflight"
    /\ requests' = [requests EXCEPT ![r] = "completed"]
    /\ UNCHANGED <<handle, handleLock, stopPc, stopRequests, server>>
    /\ UNCHANGED <<registryVars, getworkVars, rpcVars, errorVars, wsVars>>

\* Mutant of StopTake: the handle is read and left in place (as_ref for take).
StopNoTake(s) ==
    /\ stopPc[s] \in {"idle", "done"}
    /\ handleLock = NoHolder
    /\ IF handle # None
       THEN /\ handleLock' = s
            /\ stopPc' = [stopPc EXCEPT ![s] = "awaiting"]
            /\ stopRequests' = stopRequests + 1
            /\ server' = IF server = "running" THEN "stopping" ELSE server
            /\ UNCHANGED handle
       ELSE /\ stopPc' = [stopPc EXCEPT ![s] = "done"]
            /\ UNCHANGED <<handle, handleLock, stopRequests, server>>
    /\ UNCHANGED requests
    /\ UNCHANGED <<registryVars, getworkVars, rpcVars, errorVars, wsVars>>

\* RpcServer::stop up to the call of handler.stop(false): the handle Mutex
\* is locked and the Option taken; with Some(handler) the stop command is
\* sent and the guard stays held over the await, with None stop returns.
StopTake(s) ==
    /\ stopPc[s] \in {"idle", "done"}
    /\ handleLock = NoHolder
    /\ IF handle # None
       THEN /\ handle' = None
            /\ handleLock' = s
            /\ stopPc' = [stopPc EXCEPT ![s] = "awaiting"]
            /\ stopRequests' = stopRequests + 1
            /\ server' = IF server = "running" THEN "stopping" ELSE server
       ELSE /\ stopPc' = [stopPc EXCEPT ![s] = "done"]
            /\ UNCHANGED <<handle, handleLock, stopRequests, server>>
    /\ UNCHANGED requests
    /\ UNCHANGED <<registryVars, getworkVars, rpcVars, errorVars, wsVars>>

\* The server acts on the command of stop(false), a stop that is not
\* graceful: the workers are stopped at once, and what they were serving
\* is dropped.
ForcedStop ==
    /\ server = "stopping"
    /\ server' = "stopped"
    /\ requests' = [r \in Requests |->
                      IF requests[r] = "inflight" THEN "cancelled" ELSE requests[r]]
    /\ UNCHANGED <<handle, handleLock, stopPc, stopRequests>>
    /\ UNCHANGED <<registryVars, getworkVars, rpcVars, errorVars, wsVars>>

\* handler.stop(false).await completes; stop drops the guard and returns.
StopReturn(s) ==
    /\ stopPc[s] = "awaiting"
    /\ server = "stopped"
    /\ stopPc' = [stopPc EXCEPT ![s] = "done"]
    /\ handleLock' = NoHolder
    /\ UNCHANGED <<handle, stopRequests, server, requests>>
    /\ UNCHANGED <<registryVars, getworkVars, rpcVars, errorVars, wsVars>>

(***************************************************************************)
(* The /ws endpoint and the close of a connection.                         *)
(***************************************************************************)
WsInit ==
    /\ wsPc = [c \in Conns |-> "none"]
    /\ closed = [c \in Conns |-> FALSE]
    /\ removeDone = [c \in Conns |-> FALSE]

\* ws_endpoint up to start_with_addr: the handler of the connection is
\* started and its address is known.
WsStart(c) ==
    /\ wsPc[c] = "none"
    /\ wsPc' = [wsPc EXCEPT ![c] = "started"]
    /\ UNCHANGED <<closed, removeDone>>
    /\ UNCHANGED <<registryVars, getworkVars, rpcVars, errorVars, lifecycleVars>>

\* ws_endpoint from server.add_client(addr).await to its return.
WsAddClient(c) ==
    /\ wsPc[c] = "started"
    /\ LockAvailable
    /\ clients' = MapInsert(clients, c, {})
    /\ hist' = [hist EXCEPT ![c] = "added"]
    /\ wsPc' = [wsPc EXCEPT ![c] = "added"]
    /\ UNCHANGED <<closed, removeDone>>
    /\ UNCHANGED <<lock, pc, notify, iter, dispatched, snap, tasks, sendLog, result>>
    /\ UNCHANGED <<getworkVars, rpcVars, errorVars, lifecycleVars>>

\* The connection closes, any time after its handler was started.
WsClose(c) ==
    /\ wsPc[c] # "none"
    /\ ~closed[c]
    /\ closed' = [closed EXCEPT ![c] = TRUE]
    /\ UNCHANGED <<wsPc, removeDone>>
    /\ UNCHANGED <<registryVars, getworkVars, rpcVars, errorVars, lifecycleVars>>

\* The handler of a closed connection calls remove_client for it.
WsRemoveClient(c) ==
    /\ closed[c]
    /\ ~removeDone[c]
    /\ LockAvailable
    /\ clients' = MapRemove(clients, c)
    /\ hist' = [hist EXCEPT ![c] = "removed"]
    /\ removeDone' = [removeDone EXCEPT ![c] = TRUE]
    /\ UNCHANGED <<wsPc, closed>>
    /\ UNCHANGED <<lock, pc, notify, iter, dispatched, snap, tasks, sendLog, result>>
    /\ UNCHANGED <<getworkVars, rpcVars, errorVars, lifecycleVars>>


(***************************************************************************)
(* Specifications.                                                         *)
(***************************************************************************)
\* The registry and the broadcaster of a server with getwork enabled.
Init ==
    /\ RegistryInit
    /\ GetworkInit("Some", "mainnet")
    /\ RpcInit
    /\ ErrorInit
    /\ LifecycleInit
    /\ WsInit

Next ==
    \/ \E c \in Conns : AddClient(c)
    \/ \E c \in Conns : RemoveClient(c)
    \/ \E c \in Conns, e \in Events, i \in Ids : SubscribeClientTo(c, e, i)
    \/ \E c \in Conns, e \in Events : UnsubscribeClientFrom(c, e)
    \/ \E p \in Notifiers, e \in Events, v \in Values : NotifyLock(p, e, v)
    \/ \E p \in Notifiers : NotifySpawn(p)
    \/ \E p \in Notifiers : NotifyReturn(p)
    \/ \E t \in BagToSet(tasks), o \in Outcomes : Deliver(t, o)

Spec == Init /\ [][Next]_vars

\* The getwork endpoint of a server, with and without the getwork server.
GetworkSpecInit ==
    /\ RegistryInit
    /\ RpcInit
    /\ ErrorInit
    /\ LifecycleInit
    /\ WsInit
    /\ \E g \in {"Some", "None"}, n \in Networks : GetworkInit(g, n)

GetworkNext == \E req \in GetworkRequests : GetworkEndpoint(req)

GetworkSpec == GetworkSpecInit /\ [][GetworkNext]_vars

\* The dispatcher: the methods are registered, then requests are served.
RpcNext ==
    \/ \E name \in MethodNames, h \in Handlers : RegisterMethod(name, h)
    \/ Serve
    \/ \E body \in Bodies, outcome \in HandlerOutcomes : JsonRpc(body, outcome)

RpcSpec == Init /\ [][RpcNext]_vars

\* The error responses: an error is returned, then rendered.
ErrorNext ==
    \/ \E id \in ErrorIds, error \in RpcErrors : NewResponseError(id, error)
    \/ ErrorResponse

ErrorSpec == Init /\ [][ErrorNext]_vars

\* The lifecycle: requests are served while stop is called, once or more.
LifecycleNext ==
    \/ \E r \in Requests : Accept(r)
    \/ \E r \in Requests : Complete(r)
    \/ \E s \in Stoppers : StopTake(s)
    \/ ForcedStop
    \/ \E s \in Stoppers : StopReturn(s)

LifecycleSpec == Init /\ [][LifecycleNext]_vars

\* Connections come through /ws and close while notify_clients uses the
\* registry.
WsNext ==
    \/ \E c \in Conns : WsStart(c)
    \/ \E c \in Conns : WsAddClient(c)
    \/ \E c \in Conns : WsClose(c)
    \/ \E c \in Conns : WsRemoveClient(c)
    \/ \E p \in Notifiers : NotifyLock(p, "E1", "P1")
    \/ \E p \in Notifiers : NotifySpawn(p)
    \/ \E p \in Notifiers : NotifyReturn(p)

WsSpec == Init /\ [][WsNext]_vars

\* The registry with one caller of notify_clients, which notifies one
\* value: subscriptions are made, changed and dropped between its calls.
FirstNotifier == 1
FirstValue == "P1"
SubscriptionNext ==
    \/ \E c \in Conns : AddClient(c)
    \/ \E c \in Conns : RemoveClient(c)
    \/ \E c \in Conns, e \in Events, i \in Ids : SubscribeClientTo(c, e, i)
    \/ \E c \in Conns, e \in Events : UnsubscribeClientFrom(c, e)
    \/ \E e \in Events : NotifyLock(FirstNotifier, e, FirstValue)
    \/ NotifySpawn(FirstNotifier)
    \/ NotifyReturn(FirstNotifier)
    \/ \E t \in BagToSet(tasks), o \in Outcomes : Deliver(t, o)

SubscriptionSpec == Init /\ [][SubscriptionNext]_vars

(***************************************************************************)
(* Properties of the subscriber registry and the broadcaster.              *)
(***************************************************************************)
\* The loop of notifier p has ended and notify_clients is about to return.
LoopDone(p) == pc[p] = "locked" /\ iter[p] = {}
\* The tasks the call of notifier p has spawned for connection c.
DispatchedTo(p, c) == {t \in BagToSet(dispatched[p]) : t.addr = c}
\* Connection c was subscribed to event in registry m.
SubscribedIn(m, c, event) == ContainsKey(m, c) /\ ContainsKey(Get(m, c), event)

\* C1: a notify_clients(E, P) call dispatches to every connection that is
\* subscribed to E exactly one notification, carrying the id the connection
\* subscribed with and the payload P, and dispatches nothing to a connection
\* that is not subscribed to E (registered or not, subscribed to E2 or not).
C1_NotifyExactlySubscribers ==
    \A p \in Notifiers : LoopDone(p) =>
        \A c \in Conns :
            IF SubscribedIn(snap[p], c, notify[p].event)
            THEN \E t \in DispatchedTo(p, c) :
                    /\ DispatchedTo(p, c) = {t}
                    /\ CopiesIn(t, dispatched[p]) = 1
                    /\ t.response.id = Get(Get(snap[p], c), notify[p].event)
                    /\ t.response.result.event = notify[p].event
                    /\ t.response.result.value = notify[p].value
                    /\ t.response.jsonrpc = "2.0"
            ELSE DispatchedTo(p, c) = {}

\* c1 is subscribed to E1 with id 7 and to nothing else, c2 is registered and
\* subscribed to E2 only, and a notify_clients(E1, P1) call has dispatched.
C1_Witness ==
    \E p \in Notifiers :
        /\ LoopDone(p)
        /\ notify[p] = [event |-> "E1", value |-> "P1"]
        /\ snap[p] = {<<"c1", {<<"E1", Some(7)>>}>>, <<"c2", {<<"E2", None>>}>>}
        /\ BagCardinality(dispatched[p]) = 1

\* C2: once remove_client(c) has completed, no notify_clients call dispatches
\* to c until c has subscribed again after a new add_client(c): every
\* dispatch goes to a connection whose latest registry change is a
\* subscription.
C2_NoDispatchAfterRemove ==
    \A p \in Notifiers : pc[p] = "locked" =>
        \A t \in BagToSet(dispatched[p]) : hist[t.addr] = "subscribed"

\* c1 received a delivery (so it was subscribed), was removed since, and a
\* later broadcast has dispatched to c2 and not to c1.
C2_Witness ==
    \E p \in Notifiers :
        /\ LoopDone(p)
        /\ hist["c1"] = "removed"
        /\ sendLog.addr = "c1"
        /\ DispatchedTo(p, "c1") = {}
        /\ DispatchedTo(p, "c2") # {}

\* C3: whenever a delivery task sends its notification to connection c, c is
\* in the registry at that moment.
C3_SendOnlyToRegistered ==
    [][\A t \in BagToSet(tasks) :
          Deliver(t, "Delivered") => ContainsKey(clients, t.addr)]_vars

\* C4: subscribe_client_to and unsubscribe_client_from on a connection that
\* is not in the registry return ClientNotRegistered and leave the registry
\* as it was.
C4_UnregisteredRejected ==
    [][\A c \in Conns, e \in Events :
          ~ContainsKey(clients, c) =>
              /\ \A i \in Ids : SubscribeClientTo(c, e, i) =>
                    (result' = "ClientNotRegistered" /\ clients' = clients)
              /\ UnsubscribeClientFrom(c, e) =>
                    (result' = "ClientNotRegistered" /\ clients' = clients)]_vars

\* c1 was removed, c2 is subscribed, and the latest call was refused.
C4_Witness ==
    /\ result = "ClientNotRegistered"
    /\ hist["c1"] = "removed"
    /\ ~ContainsKey(clients, "c1")
    /\ hist["c2"] = "subscribed"

\* C5: whatever the deliveries do (fail, or stay pending), notify_clients
\* can always take its next step: it dispatches to the next subscriber, has
\* dispatched to every subscriber when its loop ends, and then returns Ok.
C5_DeliveryFailureIsolated ==
    \A p \in Notifiers : pc[p] = "locked" =>
        IF iter[p] # {}
        THEN ENABLED NotifySpawn(p)
        ELSE /\ \A c \in Conns : SubscribedIn(snap[p], c, notify[p].event)
                    => DispatchedTo(p, c) # {}
             /\ ENABLED (NotifyReturn(p) /\ result' = "Ok")
             /\ ~ENABLED (NotifyReturn(p) /\ result' # "Ok")

\* The call has dispatched to one connection, that delivery has failed, and
\* the loop has still to visit another connection subscribed to the event.
C5_Witness ==
    \E p \in Notifiers :
        /\ pc[p] = "locked"
        /\ \E t \in BagToSet(dispatched[p]) :
            /\ ~BagIn(t, tasks)
            /\ sendLog.addr = t.addr
            /\ sendLog.outcome \in {"SendError", "MailboxError"}
        /\ \E entry \in iter[p] : ContainsKey(entry[2], notify[p].event)

\* C6: no delivery is dispatched while the broadcast holds the clients lock.
C6_NoDispatchUnderLock ==
    \A p \in Notifiers : lock = p => dispatched[p] = EmptyBag

\* C7: the registry is never corrupted: no key occurs twice, it holds
\* exactly the connections whose latest completed operation registered them,
\* and the registry a broadcast iterates is the one it locked.
C7_RegistryNotCorrupted ==
    /\ NoDuplicateKey(clients)
    /\ \A e \in clients : NoDuplicateKey(e[2])
    /\ Keys(clients) = {c \in Conns : hist[c] \in {"added", "subscribed"}}
    /\ \A p \in Notifiers : pc[p] = "locked" => (lock = p /\ clients = snap[p])

\* A broadcast is in its loop after c1 was removed and c2 registered, while
\* the other notifier is idle.
C7_Witness ==
    \E p \in Notifiers :
        /\ pc[p] = "locked"
        /\ iter[p] # {}
        /\ hist["c1"] = "removed"
        /\ hist["c2"] = "subscribed"
        /\ result = "Ok"

(***************************************************************************)
(* Properties of the getwork endpoint.                                     *)
(***************************************************************************)
\* The five rejection reasons.
RejectionReasons == {MiningDisabled, WorkerNameTooLong, InvalidAddress,
                     AddressNotNormal, NetworkMismatch}

\* C8: the reasons are distinct and the response to a getwork request is
\* decided in this order: no getwork server -> MiningDisabled; worker name
\* longer than 32 -> WorkerNameTooLong; address that does not parse ->
\* InvalidAddress; address not normal -> AddressNotNormal; address of the
\* other network -> NetworkMismatch; otherwise no rejection, and the
\* connection is upgraded when the request is a WebSocket handshake.
C8_AdmissionOrder ==
    /\ Cardinality(RejectionReasons) = 5
    /\ gwRequest # NoRequest =>
        LET a == gwRequest.address IN
        IF getwork = "None"
        THEN gwResponse.reason = MiningDisabled /\ ~gwResponse.upgraded
        ELSE IF Len(gwRequest.worker) > 32
        THEN gwResponse.reason = WorkerNameTooLong /\ ~gwResponse.upgraded
        ELSE IF a.text # "address"
        THEN gwResponse.reason = InvalidAddress /\ ~gwResponse.upgraded
        ELSE IF ~a.normal
        THEN gwResponse.reason = AddressNotNormal /\ ~gwResponse.upgraded
        ELSE IF a.mainnet # (network = "mainnet")
        THEN gwResponse.reason = NetworkMismatch /\ ~gwResponse.upgraded
        ELSE /\ gwResponse.reason \notin RejectionReasons
             /\ gwRequest.handshake => gwResponse.upgraded

\* A worker name of exactly 32 characters with a normal address of the
\* node's network has been accepted.
C8_Witness ==
    /\ Len(gwRequest.worker) = 32
    /\ gwRequest.address.text = "address"
    /\ gwResponse.upgraded

\* C9: a getwork request adds a miner, and gets an upgraded connection, only
\* if the getwork server is configured and the four validations pass, and
\* then the miner has the key of the parsed address and the given worker
\* name; every other request leaves the miners unchanged.
C9_RejectedNeverReachMiners ==
    [][\A req \in GetworkRequests : GetworkEndpoint(req) =>
          LET a == req.address
              pass == /\ getwork = "Some"
                      /\ Len(req.worker) <= 32
                      /\ a.text = "address"
                      /\ a.normal
                      /\ a.mainnet = (network = "mainnet")
          IN  IF pass /\ req.handshake
              THEN /\ gwResponse'.upgraded
                   /\ \E m \in miners' \ miners :
                        /\ miners' = miners \cup {m}
                        /\ m.key = a.key
                        /\ m.worker = req.worker
              ELSE /\ miners' = miners
                   /\ ~gwResponse'.upgraded]_vars

\* A miner was admitted earlier, and the latest request, from an address of
\* the other network, was rejected.
C9_Witness ==
    /\ miners # {}
    /\ gwResponse.reason = NetworkMismatch
    /\ gwRequest.handshake

(***************************************************************************)
(* Properties of the dispatcher.                                           *)
(***************************************************************************)
\* C10: a request that parses, has version "2.0" and names a method that is
\* not registered is answered with an error envelope: code -32601, the id
\* of the request, a message that holds the method name; no handler runs.
C10_MethodNotFound ==
    ( /\ phase = "serving"
      /\ rpcBody.syntax
      /\ rpcBody.jsonrpc = JsonStr("2.0")
      /\ rpcBody.id \in {Absent, JsonNull} \cup {JsonNum(n) : n \in 0..MaxRequestId}
      /\ rpcBody.method[1] = "str"
      /\ \A e \in methods : e[1] # rpcBody.method[2] )
    => /\ DOMAIN rpcResponse = {"jsonrpc", "id", "error"}
       /\ rpcResponse.error.code = -32601
       /\ rpcResponse.id = IF rpcBody.id[1] = "num" THEN rpcBody.id ELSE JsonNull
       /\ \E i \in DOMAIN rpcResponse.error.message :
            rpcResponse.error.message[i] = rpcBody.method[2]
       /\ invoked = NoHandler

\* m1 is registered, and a request with id 1 for m2, which is not, was answered.
C10_Witness ==
    /\ phase = "serving"
    /\ \E e \in methods : e[1] = "m1"
    /\ \A e \in methods : e[1] # "m2"
    /\ rpcBody.syntax
    /\ rpcBody.jsonrpc = JsonStr("2.0")
    /\ rpcBody.method = JsonStr("m2")
    /\ rpcBody.id = JsonNum(1)
    /\ rpcBody.params = JsonNum(1)

\* The id a body gives, as the envelope echoes it: its number, or null.
EchoedId(body) == IF body.id[1] = "num" THEN body.id ELSE JsonNull
\* The body has the structure of an RpcRequest.
WellFormed(body) ==
    /\ body.syntax
    /\ body.jsonrpc[1] = "str"
    /\ body.method[1] = "str"
    /\ body.id \in {Absent, JsonNull} \cup {JsonNum(n) : n \in 0..MaxRequestId}

\* C11: a request of the right structure whose jsonrpc is not "2.0" is
\* answered with the InvalidVersion error (code -32600 and its message) and
\* the id of the request, null when it gave none; no handler runs, whether
\* the method is registered or not.
C11_InvalidVersion ==
    (phase = "serving" /\ WellFormed(rpcBody) /\ rpcBody.jsonrpc[2] # "2.0")
    => /\ DOMAIN rpcResponse = {"jsonrpc", "id", "error"}
       /\ rpcResponse.error.code = -32600
       /\ rpcResponse.error.message = <<"Expected json_rpc set to '2.0'">>
       /\ rpcResponse.id = EchoedId(rpcBody)
       /\ invoked = NoHandler

\* A request with jsonrpc "1.0" and id 1 for the registered method m1.
C11_Witness ==
    /\ phase = "serving"
    /\ \E e \in methods : e[1] = "m1"
    /\ rpcBody.syntax
    /\ rpcBody.jsonrpc = JsonStr("1.0")
    /\ rpcBody.method = JsonStr("m1")
    /\ rpcBody.id = JsonNum(1)

\* C12: a body that is JSON and gives a numeric id, but does not have the
\* structure of a request (method or jsonrpc missing or ill-typed), is
\* answered with that id.
C12_ParseErrorKeepsId ==
    ( /\ phase = "serving"
      /\ rpcBody.syntax
      /\ rpcBody.id[1] = "num"
      /\ (rpcBody.method[1] # "str" \/ rpcBody.jsonrpc[1] # "str") )
    => rpcResponse.id = rpcBody.id

\* The two shapes of an envelope.
ResultEnvelope == {"jsonrpc", "id", "result"}
ErrorEnvelope == {"jsonrpc", "id", "error"}

\* C13: every call of json_rpc answers one envelope that has a result or an
\* error and not both; when a handler ran and failed it is the error
\* envelope of that failure with the id of the request, when it succeeded
\* the result envelope of its value with the id of the request.
C13_OneEnvelope ==
    [][\A outcome \in HandlerOutcomes : JsonRpc(rpcBody', outcome) =>
          /\ DOMAIN rpcResponse' \in {ResultEnvelope, ErrorEnvelope}
          /\ rpcResponse'.jsonrpc = "2.0"
          /\ invoked' # NoHandler =>
                /\ rpcResponse'.id = EchoedId(rpcBody')
                /\ IF outcome.ok
                   THEN /\ DOMAIN rpcResponse' = ResultEnvelope
                        /\ rpcResponse'.result = outcome.value
                   ELSE /\ DOMAIN rpcResponse' = ErrorEnvelope
                        /\ rpcResponse'.error.message # <<>>
                        /\ rpcResponse'.error.code \in {-32602, -32603}]_vars

\* The handler of m1 ran for a request with id 1 and failed.
C13_Witness ==
    /\ phase = "serving"
    /\ invoked # NoHandler
    /\ rpcBody.id = JsonNum(1)
    /\ DOMAIN rpcResponse = ErrorEnvelope

\* C15: register_method of a name that is registered reports it and leaves
\* the registry as it was, and json_rpc never changes the registry.
C15_DuplicateRejected ==
    [][/\ \A name \in MethodNames, h \in Handlers :
            (RegisterMethod(name, h) /\ ContainsKey(methods, name))
            => (methods' = methods /\ name \in reported' /\ phase' = phase)
       /\ phase = "serving" => methods' = methods]_vars

\* The named failure kinds, grouped by the code they share.
NamedGroups == {{"ParseBodyError"}, {"InvalidRequest", "InvalidVersion"},
                {"MethodNotFound"}, {"InvalidParams", "UnexpectedParams"}}
NamedKinds == UNION NamedGroups
InternalError == -32603
\* The code of the first error of the model that has the kind.
CodeOfKind(kind) == GetCode(CHOOSE e \in RpcErrors : e.kind = kind)

\* C14, as amended: the code of a rendered error of a named kind is a named
\* code, not -32603, and another named kind has the same code exactly when
\* the two are in the same group (InvalidRequest with InvalidVersion,
\* InvalidParams with UnexpectedParams); every other kind gets -32603.
C14_CodeByGroup ==
    errorJson # NoJson =>
        LET kind == responseError.error.kind
            code == errorJson.error.code
        IN  IF kind \in NamedKinds
            THEN /\ code # InternalError
                 /\ \A other \in NamedKinds :
                        (CodeOfKind(other) = code)
                        <=> (\E g \in NamedGroups : {kind, other} \subseteq g)
            ELSE code = InternalError

\* An InvalidVersion error has been rendered with the code -32600.
C14_Witness ==
    /\ errorJson # NoJson
    /\ responseError.error.kind = "InvalidVersion"
    /\ errorJson.error.code = -32600

\* C14, as stated: no two distinct named kinds get the same code.
C14_OneToOne ==
    errorJson # NoJson =>
        LET kind == responseError.error.kind
            code == errorJson.error.code
        IN  IF kind \in NamedKinds
            THEN \A other \in NamedKinds \ {kind} : CodeOfKind(other) # code
            ELSE code = InternalError

\* C16: stop asks the server handle to stop at most once, in the call that
\* takes the stored handle; a call that finds no handle asks nothing and
\* returns, and the stored handle, once empty, stays empty.
C16_StopIdempotent ==
    [][/\ stopRequests' <= 1
       /\ handle = None => handle' = None
       /\ \A s \in Stoppers :
            StopTake(s) =>
                IF handle = None
                THEN /\ stopRequests' = stopRequests
                     /\ stopPc'[s] = "done"
                     /\ server' = server
                ELSE /\ stopRequests' = stopRequests + 1
                     /\ handle' = None]_vars

\* Every caller of stop has returned and the stop was asked for once.
C16_Witness ==
    /\ \A s \in Stoppers : stopPc[s] = "done"
    /\ stopRequests = 1
    /\ handle = None

\* C17: stop cancels no request that is in flight, and the server has
\* stopped only when none is left in flight.
C17_GracefulStop ==
    /\ \A r \in Requests : requests[r] # "cancelled"
    /\ server = "stopped" => \A r \in Requests : requests[r] # "inflight"

NewlyDispatched(p) == {t \in BagToSet(dispatched'[p]) :
                          CopiesIn(t, dispatched'[p]) > CopiesIn(t, dispatched[p])}

\* C18: subscribe_client_to(c, E, i) on a registered c leaves c with the
\* single subscription <<E, i>> to E and its other subscriptions as they
\* were; a notification dispatched to c for E carries the id the registry
\* holds for E, and a call dispatches one notification to c at most;
\* unsubscribe_client_from(c, E) on a registered c that has no subscription
\* to E returns Ok and changes nothing.
C18_LastWriterWins ==
    [][/\ \A c \in Conns, e \in Events, i \in Ids :
            (SubscribeClientTo(c, e, i) /\ ContainsKey(clients, c))
            => /\ result' = "Ok"
               /\ {x \in Get(clients', c) : x[1] = e} = {<<e, i>>}
               /\ {x \in Get(clients', c) : x[1] # e}
                    = {x \in Get(clients, c) : x[1] # e}
       /\ \A c \in Conns, e \in Events :
            ( /\ UnsubscribeClientFrom(c, e)
              /\ ContainsKey(clients, c)
              /\ ~ContainsKey(Get(clients, c), e) )
            => (result' = "Ok" /\ clients' = clients)
       /\ \A p \in Notifiers :
            NotifySpawn(p) =>
                \A t \in NewlyDispatched(p) :
                    /\ Get(clients, t.addr) \cap {<<notify[p].event, i>> : i \in Ids}
                         = {<<notify[p].event, t.response.id>>}
                    /\ \A u \in BagToSet(dispatched'[p]) :
                          u.addr = t.addr => u = t
                    /\ CopiesIn(t, dispatched'[p]) = 1]_vars

\* c1 subscribed to E1 with no id and was notified; it has subscribed to E1
\* again with id 7, and holds that one subscription to E1.
C18_Witness ==
    /\ \E t \in BagToSet(tasks) :
          /\ t.addr = "c1"
          /\ t.response.id = None
          /\ t.response.result.event = "E1"
    /\ ContainsKey(clients, "c1")
    /\ {x \in Get(clients, "c1") : x[1] = "E1"} = {<<"E1", Some(7)>>}
    /\ hist["c1"] = "subscribed"

\* C19: add_client(c) leaves c registered with the empty subscription set,
\* whatever c held before, and the other entries as they were; as long as
\* that is the latest change of c's entry, notify_clients dispatches
\* nothing to c; remove_client(c) on an absent c changes nothing.
C19_AddClientResets ==
    [][/\ \A c \in Conns :
            AddClient(c) =>
                /\ ContainsKey(clients', c)
                /\ Get(clients', c) = {}
                /\ {x \in clients' : x[1] # c} = {x \in clients : x[1] # c}
       /\ \A c \in Conns :
            (RemoveClient(c) /\ ~ContainsKey(clients, c)) => clients' = clients
       /\ \A p \in Notifiers :
            NotifySpawn(p) =>
                \A t \in NewlyDispatched(p) : hist[t.addr] # "added"]_vars

\* c1 was subscribed and notified, and then added again: its set is empty.
C19_Witness ==
    /\ \E t \in BagToSet(tasks) : t.addr = "c1"
    /\ hist["c1"] = "added"
    /\ ContainsKey(clients, "c1")
    /\ Get(clients, "c1") = {}

====
